---- MODULE Spec2Model ----
(***************************************************************************)
(* A model of GameOfLife (src/src/main.rs): a bit-packed Conway grid.      *)
(* A CellCluster (u64) is modelled as the set of its set bit positions,    *)
(* a subset of 0..63; the storage is a function from word index to word.   *)
(***************************************************************************)
EXTENDS Integers, FiniteSets, Sequences, TLC

VARIABLES
    width,      \* GameOfLife.width
    height,     \* GameOfLife.height
    grid,       \* GameOfLife.grid: [0..len-1 -> word]
    pc,         \* position of the caller / of tick's body
    prev,       \* tick: column index held by `prev`
    curr,       \* tick: column index held by `curr` (-1: none)
    nxt,        \* tick: column index the `columns` iterator yields next
    pre,        \* history: grid when the running (or last) tick started
    seed0,      \* history: grid as seeded
    ticks,      \* history: number of completed tick() calls
    colRuns,    \* history: per column, tick_column runs in this tick
    reads,      \* history: edge-exchange reads of this tick
    calls,      \* history: kernel calls of the latest tick_column
    q,          \* result of the latest is_alive call
    kabove,     \* tick_cluster: argument `above`
    kbelow,     \* tick_cluster: argument `below`
    krow,       \* tick_cluster: `*cluster` (overwritten in place)
    kpre,       \* history: `*cluster` before the call
    kdone       \* tick_cluster has returned

gvars == <<width, height, grid, pc, prev, curr, nxt, pre, seed0, ticks, colRuns, reads, calls>>
kvars == <<kabove, kbelow, krow, kpre, kdone>>
vars == <<gvars, q, kvars>>

----------------------------------------------------------------------------
(* Program constants and bounds *)

CLUSTER_LEN == 62

WORD_BITS == 64

MaxTicks == 2

MaxHeight == 4

----------------------------------------------------------------------------
(* u64 arithmetic on sets of bit positions *)

Bits == 0..(WORD_BITS - 1)

Xor(a, b) == (a \ b) \cup (b \ a)

And(a, b) == a \cap b

Or(a, b) == a \cup b

Not(a) == Bits \ a

Shl(a, n) == {i + n : i \in a} \cap Bits

Shr(a, n) == {i - n : i \in a} \cap Bits

----------------------------------------------------------------------------
(* GameOfLife::new *)

\* faulty variant: rounds the column count down
NumColumnsFloor(w) == w \div CLUSTER_LEN

NumColumns(w) == (w + CLUSTER_LEN - 1) \div CLUSTER_LEN

NewGrid(w, h) == [i \in 0..(NumColumns(w) * h - 1) |-> {}]

GridLen(g) == Cardinality(DOMAIN g)

----------------------------------------------------------------------------
(* tick_cluster and tick_column *)

BitSum(a, b, c) == <<Xor(Xor(a, b), c), Or(Or(And(a, b), And(a, c)), And(b, c))>>

\* faulty variant: the carry of the high plane (a count of four or more) is not masked out
TickClusterNoCap(cluster, above, below) ==
    LET i == BitSum(above, cluster, below)
        a == BitSum(Shl(i[1], 1), Xor(above, below), Shr(i[1], 1))
        b == BitSum(Shl(i[2], 1), And(above, below), Shr(i[2], 1))
    IN  And(Or(cluster, a[1]), Xor(a[2], b[1]))

TickCluster(cluster, above, below) ==
    LET i == BitSum(above, cluster, below)
        a == BitSum(Shl(i[1], 1), Xor(above, below), Shr(i[1], 1))
        b == BitSum(Shl(i[2], 1), And(above, below), Shr(i[2], 1))
    IN  And(Or(cluster, a[1]), And(Xor(a[2], b[1]), Not(b[2])))

\* faulty variant: the next row is handed the row just written
AboveAfterNew(old, new) == new

\* the register `above` handed to the next row: the saved old value of the row
AboveAfter(old, new) == old

RECURSIVE TickRows(_, _, _)
TickRows(col, r, above) ==
    IF r = Len(col)
    THEN [col EXCEPT ![r] = TickCluster(col[r], above, {})]
    ELSE LET new == TickCluster(col[r], above, col[r + 1])
         IN  TickRows([col EXCEPT ![r] = new], r + 1, AboveAfter(col[r], new))

TickColumn(col) == IF Len(col) = 0 THEN col ELSE TickRows(col, 1, {})

RECURSIVE CallRows(_, _, _)
CallRows(col, r, above) ==
    IF r = Len(col)
    THEN <<[above |-> above, row |-> col[r], below |-> {}]>>
    ELSE LET new == TickCluster(col[r], above, col[r + 1])
         IN  <<[above |-> above, row |-> col[r], below |-> col[r + 1]]>>
             \o CallRows([col EXCEPT ![r] = new], r + 1, AboveAfter(col[r], new))

ColumnCalls(col) == IF Len(col) = 0 THEN <<>> ELSE CallRows(col, 1, {})

----------------------------------------------------------------------------
(* tick: masks, chunks and the edge exchange *)

edge_mask == {0, WORD_BITS - 1}

\* faulty variant: a width that is a multiple of the lane count gets width 1
tail_width_mod(w) == (w % CLUSTER_LEN) + 1

tail_width(w) == ((w + CLUSTER_LEN - 1) % CLUSTER_LEN) + 1

\* faulty variant: the mask starts one lane too far to the left
tail_mask_short(w) == Or(edge_mask, Shl(Not({0}), tail_width(w) + 1))

tail_mask(w) == Or(edge_mask, Shl(Not({0}), tail_width(w)))

\* chunks_exact_mut(height): the number of whole chunks of the storage
NumChunks(g, h) == GridLen(g) \div h

\* the words of chunk k, top to bottom
Chunk(g, h, k) == [r \in 1..h |-> g[k * h + r - 1]]

\* the storage with chunk k replaced by col
WithChunk(g, h, k, col) ==
    [i \in DOMAIN g |-> IF i \div h = k THEN col[i - k * h + 1] ELSE g[i]]

\* faulty variant: shifts the neighbour the wrong way
ExchangeFirstWordShr(first, second) ==
    Xor(first, And(Xor(Shr(second, CLUSTER_LEN), first), edge_mask))

\* faulty variant: writes bit 63 only and leaves bit 0 as it was
ExchangeFirstWordHighOnly(first, second) ==
    Xor(first, And(Xor(Shl(second, CLUSTER_LEN), first), {WORD_BITS - 1}))

ExchangeFirstWord(first, second) ==
    Xor(first, And(Xor(Shl(second, CLUSTER_LEN), first), edge_mask))

\* faulty variant: leaves out the left neighbour's lane
ExchangeMidWordNoLeft(left, mid, right) ==
    Xor(mid, And(Xor(Shl(right, CLUSTER_LEN), mid), edge_mask))

\* faulty variant: the neighbours' lanes replace the whole word
ExchangeMidWordNoMask(left, mid, right) ==
    Xor(mid, Xor(Or(Shr(left, CLUSTER_LEN), Shl(right, CLUSTER_LEN)), mid))

ExchangeMidWord(left, mid, right) ==
    Xor(mid, And(Xor(Or(Shr(left, CLUSTER_LEN), Shl(right, CLUSTER_LEN)), mid), edge_mask))

\* faulty variant: masks the tail without taking the left neighbour's lane
ExchangeLastWordNoLeft(left, last, w) == And(last, Not(tail_mask(w)))

\* faulty variant: writes the scratch bits only and leaves the padding lanes
ExchangeLastWordEdgeOnly(left, last, w) ==
    Xor(last, And(Xor(Shr(left, CLUSTER_LEN), last), edge_mask))

ExchangeLastWord(left, last, w) ==
    Xor(last, And(Xor(Shr(left, CLUSTER_LEN), last), tail_mask(w)))

\* faulty variant: leaves bit 0 as it was
SingleWordKeepLow(f, w) == And(f, Not(tail_mask(w) \ {0}))

SingleWord(f, w) == And(f, Not(tail_mask(w)))

\* a shift by the word size or more overflows
ShiftOk(n) == n < WORD_BITS

\* tick fails: chunk size 0, unwrap of an empty iterator, or an overflowing shift
TickPanics(w, h, g) ==
    \/ h = 0
    \/ NumChunks(g, h) = 0
    \/ ~ShiftOk(CLUSTER_LEN)
    \/ ~ShiftOk(tail_width(w))

\* faulty variant: the loop runs the kernel on the middle column of the window
LoopTargetCurr(p, c) == c

\* the column the kernel runs on inside the loop, and after the last exchange
LoopTarget(p, c) == p

\* faulty variant: the call after the last exchange runs on `prev` again
TailTargetPrev(p, c) == p

TailTarget(p, c) == c

----------------------------------------------------------------------------
(* is_alive *)

Index(x, y, h) == (x \div CLUSTER_LEN) * h + y

\* faulty variant: does not skip the scratch bit
OffsetNoSkip(x) == x % CLUSTER_LEN

Offset(x) == (x % CLUSTER_LEN) + 1

\* ((self.grid[index] >> offset) & 0b1) == 1, for an index inside the storage
CellBit(g, h, x, y) == Offset(x) \in g[Index(x, y, h)]

\* the outcome of is_alive(x, y): the slice index is bounds-checked, nothing else is
IsAliveResult(g, h, x, y) ==
    IF Index(x, y, h) >= GridLen(g)
    THEN [kind |-> "panic", x |-> x, y |-> y, index |-> Index(x, y, h),
          offset |-> Offset(x), value |-> FALSE]
    ELSE [kind |-> "ok", x |-> x, y |-> y, index |-> Index(x, y, h),
          offset |-> Offset(x), value |-> CellBit(g, h, x, y)]

----------------------------------------------------------------------------
(* Storage written by the harnesses: bench's raw fill and example's rows *)

Widths == {0, 5, 62, 65, 124, 127}

\* leftmost x of the 3x3 windows that seeded patterns are drawn from: at the
\* left edge, inside, at the right edge, and across packed-column boundaries
Anchors(w) ==
    CASE w = 5   -> {0, 1, 2}
      [] w = 62  -> {59}
      [] w = 65  -> {61, 62}
      [] w = 124 -> {121}
      [] w = 127 -> {61, 123}
      [] OTHER   -> {0}

Window(a) == {<<a + dx, dy>> : dx \in 0..2, dy \in 0..2}

\* bits of a raw word that hold no valid cell: scratch bits and padding lanes
JunkBits(w, col) ==
    edge_mask \cup
    (IF col = NumColumns(w) - 1 THEN (tail_width(w) + 1)..CLUSTER_LEN ELSE {})

\* the raw storage whose valid lanes hold cells and whose other bits are all
\* set (junk) or all clear
Packed(w, h, cells, junk) ==
    [i \in 0..(NumColumns(w) * h - 1) |->
        {Offset(c[1]) : c \in {d \in cells : /\ d[1] < w
                                             /\ d[2] = (i % h)
                                             /\ d[1] \div CLUSTER_LEN = i \div h}}
        \cup (IF junk THEN JunkBits(w, i \div h) ELSE {})]

----------------------------------------------------------------------------
(* State machine of a grid: new, seeding, tick *)

NoQuery == [kind |-> "none", x |-> 0, y |-> 0, index |-> 0, offset |-> 0, value |-> FALSE]

KernelIdle ==
    /\ kabove = {}
    /\ kbelow = {}
    /\ krow = {}
    /\ kpre = {}
    /\ kdone = FALSE

Init ==
    /\ width \in Widths
    /\ height \in 0..MaxHeight
    /\ grid = NewGrid(width, height)
    /\ pc = "new"
    /\ prev = 0
    /\ curr = -1
    /\ nxt = 0
    /\ pre = grid
    /\ seed0 = grid
    /\ ticks = 0
    /\ colRuns = <<>>
    /\ reads = {}
    /\ calls = <<>>
    /\ q = NoQuery
    /\ KernelIdle

DoSeed(cells, junk) ==
    /\ grid' = Packed(width, height, cells, junk)
    /\ seed0' = grid'
    /\ pre' = grid'
    /\ pc' = "idle"
    /\ UNCHANGED <<width, height, prev, curr, nxt, ticks, colRuns, reads, calls, q, kvars>>

Seed ==
    /\ pc = "new"
    /\ \E a \in Anchors(width), junk \in BOOLEAN :
          \E cells \in SUBSET Window(a) : DoSeed(cells, junk)

Read(by, of, lane) == [by |-> by, of |-> of, lane |-> lane, stale |-> colRuns[of] > 0]

TickStart ==
    /\ pc = "idle"
    /\ ticks < MaxTicks
    /\ IF TickPanics(width, height, grid)
       THEN /\ pc' = "panicked"
            /\ UNCHANGED <<prev, curr, nxt, pre, colRuns, reads, calls>>
       ELSE /\ pre' = grid
            /\ prev' = 0
            /\ colRuns' = [k \in 0..(NumChunks(grid, height) - 1) |-> 0]
            /\ reads' = {}
            /\ calls' = <<>>
            /\ IF NumChunks(grid, height) >= 2
               THEN curr' = 1 /\ nxt' = 2 /\ pc' = "first"
               ELSE curr' = -1 /\ nxt' = 1 /\ pc' = "single"
    /\ UNCHANGED <<width, height, grid, seed0, ticks, q, kvars>>

ExchangeFirst ==
    /\ pc = "first"
    /\ grid' = WithChunk(grid, height, prev,
                  [r \in 1..height |->
                      ExchangeFirstWord(Chunk(grid, height, prev)[r],
                                        Chunk(grid, height, curr)[r])])
    /\ reads' = reads \cup {Read(prev, curr, 1)}
    /\ pc' = IF nxt < NumChunks(grid, height) THEN "mid" ELSE "last"
    /\ UNCHANGED <<width, height, prev, curr, nxt, pre, seed0, ticks, colRuns, calls, q, kvars>>

ExchangeMid ==
    /\ pc = "mid"
    /\ grid' = WithChunk(grid, height, curr,
                  [r \in 1..height |->
                      ExchangeMidWord(Chunk(grid, height, prev)[r],
                                      Chunk(grid, height, curr)[r],
                                      Chunk(grid, height, nxt)[r])])
    /\ reads' = reads \cup {Read(curr, prev, CLUSTER_LEN), Read(curr, nxt, 1)}
    /\ pc' = "loop"
    /\ UNCHANGED <<width, height, prev, curr, nxt, pre, seed0, ticks, colRuns, calls, q, kvars>>

RunColumn(k) ==
    /\ grid' = WithChunk(grid, height, k, TickColumn(Chunk(grid, height, k)))
    /\ calls' = ColumnCalls(Chunk(grid, height, k))
    /\ colRuns' = [colRuns EXCEPT ![k] = @ + 1]

TickLoop ==
    /\ pc = "loop"
    /\ RunColumn(LoopTarget(prev, curr))
    /\ prev' = curr
    /\ curr' = nxt
    /\ nxt' = nxt + 1
    /\ pc' = IF nxt + 1 < NumChunks(grid, height) THEN "mid" ELSE "last"
    /\ UNCHANGED <<width, height, pre, seed0, ticks, reads, q, kvars>>

ExchangeLast ==
    /\ pc = "last"
    /\ grid' = WithChunk(grid, height, curr,
                  [r \in 1..height |->
                      ExchangeLastWord(Chunk(grid, height, prev)[r],
                                       Chunk(grid, height, curr)[r], width)])
    /\ reads' = reads \cup {Read(curr, prev, CLUSTER_LEN)}
    /\ pc' = "tail"
    /\ UNCHANGED <<width, height, prev, curr, nxt, pre, seed0, ticks, colRuns, calls, q, kvars>>

TickTail ==
    /\ pc = "tail"
    /\ RunColumn(TailTarget(prev, curr))
    /\ pc' = "final"
    /\ UNCHANGED <<width, height, prev, curr, nxt, pre, seed0, ticks, reads, q, kvars>>

MaskSingle ==
    /\ pc = "single"
    /\ grid' = WithChunk(grid, height, prev,
                  [r \in 1..height |-> SingleWord(Chunk(grid, height, prev)[r], width)])
    /\ pc' = "final"
    /\ UNCHANGED <<width, height, prev, curr, nxt, pre, seed0, ticks, colRuns, reads, calls, q, kvars>>

TickFinal ==
    /\ pc = "final"
    /\ RunColumn(prev)
    /\ ticks' = ticks + 1
    /\ pc' = "idle"
    /\ UNCHANGED <<width, height, prev, curr, nxt, pre, seed0, reads, q, kvars>>

Next ==
    \/ Seed
    \/ TickStart
    \/ ExchangeFirst
    \/ ExchangeMid
    \/ TickLoop
    \/ ExchangeLast
    \/ TickTail
    \/ MaskSingle
    \/ TickFinal

Spec == Init /\ [][Next]_vars

----------------------------------------------------------------------------
(* The kernel alone: tick_cluster applied to drawn triples of words *)

KernelLanes == {1, 2, 32, 61, 62}

\* row 1 is `above`, row 2 the cluster, row 3 `below`; p places bits around
\* lane k, noise sets every bit further away
KernelWord(p, row, k, noise) ==
    {k + c[2] : c \in {d \in p : d[1] = row}}
    \cup (IF noise THEN Bits \ ((k - 1)..(k + 1)) ELSE {})

InitKernel ==
    /\ width = 0
    /\ height = 0
    /\ grid = NewGrid(0, 0)
    /\ pc = "kernel"
    /\ prev = 0
    /\ curr = -1
    /\ nxt = 0
    /\ pre = grid
    /\ seed0 = grid
    /\ ticks = 0
    /\ colRuns = <<>>
    /\ reads = {}
    /\ calls = <<>>
    /\ q = NoQuery
    /\ kdone = FALSE
    /\ \E k \in KernelLanes, noise \in BOOLEAN :
         \E p \in SUBSET ((1..3) \X (-1..1)) :
            /\ kabove = KernelWord(p, 1, k, noise)
            /\ krow = KernelWord(p, 2, k, noise)
            /\ kbelow = KernelWord(p, 3, k, noise)
    /\ kpre = krow

KernelStep ==
    /\ pc = "kernel"
    /\ ~kdone
    /\ krow' = TickCluster(krow, kabove, kbelow)
    /\ kpre' = krow
    /\ kdone' = TRUE
    /\ UNCHANGED <<gvars, q, kabove, kbelow>>

NextKernel == KernelStep

SpecKernel == InitKernel /\ [][NextKernel]_vars

----------------------------------------------------------------------------
(* Callers of is_alive: print's loops and out-of-range coordinates *)

AllCells(w, h) == (0..(w - 1)) \X (0..(h - 1))

SeedFill ==
    /\ pc = "new"
    /\ \E full \in BOOLEAN, junk \in BOOLEAN :
          DoSeed(IF full THEN AllCells(width, height) ELSE {}, junk)

QueryXs(w) == (0..(w + 1)) \cup {w + CLUSTER_LEN}

QueryYs(h) == 0..(h + 1)

\* is_alive takes &self: it changes nothing, so one recorded call per run
\* reaches every outcome
IsAlive ==
    /\ pc = "idle"
    /\ q.kind = "none"
    /\ \E x \in QueryXs(width), y \in QueryYs(height) :
          q' = IsAliveResult(grid, height, x, y)
    /\ UNCHANGED <<gvars, kvars>>

NextQuery ==
    \/ SeedFill
    \/ IsAlive

SpecQuery == Init /\ [][NextQuery]_vars

----------------------------------------------------------------------------
(* Reference definitions used by the properties *)

Columns == NumColumns(width)

\* the cell whose state is_alive reads at bit b of word i
CellOf(i, b) == <<(i \div height) * CLUSTER_LEN + b - 1, i % height>>

\* the in-range cells that is_alive reports alive in storage g: only a cell
\* read from a set data bit can be alive
LiveCells(g) ==
    {c \in UNION {{CellOf(i, b) : b \in g[i] \cap (1..CLUSTER_LEN)} : i \in DOMAIN g} :
        c[1] < width /\ CellBit(g, height, c[1], c[2])}

Neighbours(c) ==
    {<<c[1] + dx, c[2] + dy>> : dx \in -1..1, dy \in -1..1} \ {c}

\* live neighbours of c, every cell outside the grid counting as dead
RefCount(live, c) ==
    Cardinality({n \in Neighbours(c) : /\ n[1] >= 0 /\ n[1] < width
                                        /\ n[2] >= 0 /\ n[2] < height
                                        /\ n \in live})

\* the naive Conway step; a cell with no live neighbour is dead after it, so
\* only the in-range neighbours of live cells are candidates
RefStep(live) ==
    {c \in UNION {Neighbours(l) : l \in live} :
        /\ c[1] >= 0 /\ c[1] < width
        /\ c[2] >= 0 /\ c[2] < height
        /\ \/ RefCount(live, c) = 3
           \/ c \in live /\ RefCount(live, c) = 2}

AtRest == pc \in {"new", "idle"}

Ticked == pc = "idle" /\ ticks >= 1

\* the seeding wrote valid data lanes only
CleanSeed ==
    \A i \in DOMAIN seed0 : seed0[i] \cap JunkBits(width, i \div height) = {}

\* cell (x, y-1), (x, y), (x, y+1) were all alive (and in range) before the tick
VerticalTriple(x, y) ==
    /\ y >= 1
    /\ y + 1 < height
    /\ \A dy \in -1..1 : CellBit(pre, height, x, y + dy)

PaddingLanes == (tail_width(width) + 1)..CLUSTER_LEN

LastColumnWords == {i \in DOMAIN grid : i \div height = Columns - 1}

\* the kernel is about to run on the last column
KernelStartsOnLast == pc = "tail" \/ (pc = "final" /\ Columns = 1)

----------------------------------------------------------------------------
(* C1 *)

\* C1: after one tick() the in-range cells read by is_alive equal the naive
\* reference step of the cells before the tick, cells outside the grid dead.
TickMatchesReference ==
    Ticked => LiveCells(grid) = RefStep(LiveCells(pre))

\* a cell in the first lane of the third packed column was born from a
\* neighbour in the last lane of the second one
TickMatchesReferenceWitness ==
    /\ Ticked
    /\ width = 127
    /\ \E y \in 0..(height - 1) :
          /\ CellBit(grid, height, 2 * CLUSTER_LEN, y)
          /\ ~CellBit(pre, height, 2 * CLUSTER_LEN, y)
          /\ CellBit(pre, height, 2 * CLUSTER_LEN - 1, y)

----------------------------------------------------------------------------
(* C2 *)

\* number of set bits around data lane k: lanes k-1, k, k+1 of above and
\* below, lanes k-1 and k+1 of the row
KernelCount(k) ==
    Cardinality(kabove \cap ((k - 1)..(k + 1)))
    + Cardinality(kbelow \cap ((k - 1)..(k + 1)))
    + Cardinality(kpre \cap {k - 1, k + 1})

\* C2: for every data lane k in 1..62 the bit tick_cluster writes is 1 iff the
\* neighbour count is 3, or the row bit is 1 and the count is 2.
KernelRule ==
    kdone => \A k \in 1..CLUSTER_LEN :
                (k \in krow) <=> (KernelCount(k) = 3 \/ (k \in kpre /\ KernelCount(k) = 2))

\* lane 62 was alive with six or more neighbours, scratch bit 63 among them,
\* and died
KernelRuleWitness ==
    /\ kdone
    /\ CLUSTER_LEN \in kpre
    /\ (WORD_BITS - 1) \in kabove
    /\ KernelCount(CLUSTER_LEN) >= 6
    /\ CLUSTER_LEN \notin krow

----------------------------------------------------------------------------
(* C3 *)

\* C3 as stated: at rest (after new, after each tick) bit 0 and bit 63 of
\* every storage word are 0, when only valid data lanes were seeded.
ScratchBitsZeroAtRest ==
    (AtRest /\ CleanSeed) =>
        \A i \in DOMAIN grid : grid[i] \cap edge_mask = {}

\* C3 amended: scratch bits are 0 after new; after a tick bit 0 of row y of
\* the leftmost column is 1 exactly when cell x = 0 was alive in rows y-1, y
\* and y+1 before the tick, and bit 63 of row y of the last column is 1 exactly
\* when width fills the column and cell x = width-1 was alive in those rows.
ScratchBitsAfterTick ==
    /\ pc = "new" => \A i \in DOMAIN grid : grid[i] \cap edge_mask = {}
    /\ Ticked =>
          \A y \in 0..(height - 1) :
             /\ (0 \in grid[y]) <=> VerticalTriple(0, y)
             /\ ((WORD_BITS - 1) \in grid[(Columns - 1) * height + y])
                   <=> (tail_width(width) = CLUSTER_LEN /\ VerticalTriple(width - 1, y))

\* after a tick on cleanly seeded storage, bit 0 of a word of the leftmost
\* column is 1
ScratchBitsAfterTickWitness ==
    /\ Ticked
    /\ CleanSeed
    /\ \E y \in 0..(height - 1) : 0 \in grid[y]

----------------------------------------------------------------------------
(* C4 *)

\* C4 as stated: every padding lane of the last column is 0 in every state,
\* at rest and inside tick, when only valid data lanes were seeded.
PaddingAlwaysZero ==
    CleanSeed => \A i \in LastColumnWords : grid[i] \cap PaddingLanes = {}

\* C4 amended: padding lanes are 0 after new and when the kernel starts on
\* the last column; after a tick only the first padding lane can be 1, in row
\* y exactly when cell x = width-1 was alive in rows y-1, y and y+1 before.
PaddingAfterTick ==
    /\ (pc = "new" \/ KernelStartsOnLast) =>
          \A i \in LastColumnWords : grid[i] \cap PaddingLanes = {}
    /\ (Ticked /\ PaddingLanes # {}) =>
          \A y \in 0..(height - 1) :
             LET word == grid[(Columns - 1) * height + y]
             IN  /\ word \cap (PaddingLanes \ {tail_width(width) + 1}) = {}
                 /\ ((tail_width(width) + 1) \in word) <=> VerticalTriple(width - 1, y)

\* after a tick on cleanly seeded storage of a width that leaves padding, the
\* first padding lane of a word is 1
PaddingAfterTickWitness ==
    /\ Ticked
    /\ CleanSeed
    /\ PaddingLanes # {}
    /\ \E i \in LastColumnWords : (tail_width(width) + 1) \in grid[i]

----------------------------------------------------------------------------
(* C5 *)

Asked == q.kind # "none"

InRange == q.x < width /\ q.y < height

\* C5: is_alive with x >= width or y >= height always panics.
OutOfRangePanics ==
    (Asked /\ ~InRange) => q.kind = "panic"

----------------------------------------------------------------------------
(* C6 *)

\* C6: an in-range is_alive reads a word below columns * height at a bit
\* offset in 1..62 that is no padding lane, and no other in-range coordinate
\* maps to the same word and bit.
InRangeMapping ==
    (Asked /\ InRange) =>
        /\ q.kind = "ok"
        /\ q.index < Columns * height
        /\ q.offset \in 1..CLUSTER_LEN
        /\ q.index \in LastColumnWords => q.offset \notin PaddingLanes
        /\ \A c \in AllCells(width, height) :
              (Index(c[1], c[2], height) = q.index /\ Offset(c[1]) = q.offset)
                 => c = <<q.x, q.y>>

\* LiveCells holds exactly the in-range cells for which is_alive returns true
LiveCellsIsAliveTrue ==
    (Asked /\ InRange /\ q.kind = "ok") => (q.value <=> <<q.x, q.y>> \in LiveCells(grid))

\* the last cell of a grid whose last column has padding was read
InRangeMappingWitness ==
    /\ q.kind = "ok"
    /\ width = 127
    /\ height >= 2
    /\ q.x = width - 1
    /\ q.y = height - 1
    /\ q.value

----------------------------------------------------------------------------
(* C7 *)

InTick == pc \in {"first", "mid", "loop", "last", "tail", "single", "final"}

\* C7: on a grid made by new(width, height) with width, height >= 1, tick
\* never fails: no panic, whole chunks of height words, shifts below 64 and
\* every column index inside the storage.
TickNeverFails ==
    (width >= 1 /\ height >= 1) =>
        /\ pc # "panicked"
        /\ GridLen(grid) = NumChunks(grid, height) * height
        /\ NumChunks(grid, height) >= 1
        /\ ShiftOk(CLUSTER_LEN) /\ ShiftOk(tail_width(width))
        /\ InTick => (prev + 1) * height <= GridLen(grid)
        /\ pc \in {"first", "mid", "loop", "last", "tail"} =>
              (curr >= 0 /\ (curr + 1) * height <= GridLen(grid))
        /\ pc \in {"mid", "loop"} => (nxt + 1) * height <= GridLen(grid)

\* a tick of a three-column grid ran to its end
TickNeverFailsWitness ==
    /\ Ticked
    /\ NumChunks(grid, height) = 3
    /\ \A k \in DOMAIN colRuns : colRuns[k] >= 1

----------------------------------------------------------------------------
(* C8 *)

\* the live cells are one 2x2 block with a dead cell between it and each edge
IsBlock(live) ==
    \E c \in live :
        /\ c[1] >= 1 /\ c[1] + 1 <= width - 2
        /\ c[2] >= 1 /\ c[2] + 1 <= height - 2
        /\ live = {c, <<c[1] + 1, c[2]>>, <<c[1], c[2] + 1>>, <<c[1] + 1, c[2] + 1>>}

\* C8: a grid seeded with only a 2x2 block away from the edges has the same
\* live cells after every number of ticks.
BlockCase(seeded, now) == IsBlock(seeded) => now = seeded

BlockIsStill ==
    pc = "idle" => BlockCase(LiveCells(seed0), LiveCells(grid))

\* two ticks have run on a block whose halves lie in two packed columns
BlockIsStillWitness ==
    /\ pc = "idle"
    /\ ticks = 2
    /\ IsBlock(LiveCells(seed0))
    /\ <<CLUSTER_LEN - 1, 1>> \in LiveCells(grid)
    /\ <<CLUSTER_LEN, 1>> \in LiveCells(grid)

----------------------------------------------------------------------------
(* C9 *)

HBlinker(x, y) == {<<x - 1, y>>, <<x, y>>, <<x + 1, y>>}

VBlinker(x, y) == {<<x, y - 1>>, <<x, y>>, <<x, y + 1>>}

\* live is a horizontal blinker centred at c with a dead cell between it and
\* every edge
IsBlinkerAt(live, c) ==
    /\ live = HBlinker(c[1], c[2])
    /\ c[1] - 1 >= 1 /\ c[1] + 1 <= width - 2
    /\ c[2] >= 1 /\ c[2] <= height - 2

BlinkerCase(seeded, now) ==
    \A c \in seeded :
        IsBlinkerAt(seeded, c) =>
            /\ (ticks % 2 = 1) => (now = VBlinker(c[1], c[2]) /\ now # seeded)
            /\ (ticks % 2 = 0) => now = seeded

\* C9: a horizontal blinker away from the edges is vertical after one tick and
\* back to its seeded cells after two (and so alternates with the tick count).
BlinkerOscillates ==
    pc = "idle" => BlinkerCase(LiveCells(seed0), LiveCells(grid))

\* two ticks have run on a blinker that lies across two packed columns
BlinkerOscillatesWitness ==
    /\ pc = "idle"
    /\ ticks = 2
    /\ IsBlinkerAt(LiveCells(seed0), <<CLUSTER_LEN, 1>>)
    /\ LiveCells(grid) = HBlinker(CLUSTER_LEN, 1)

----------------------------------------------------------------------------
(* C10 *)

HasRead(by, of, lane) ==
    \E rd \in reads : rd.by = by /\ rd.of = of /\ rd.lane = lane

\* C10: with two or more columns, the kernel has overwritten column i only
\* after column i-1's exchange read its bit 1 and column i+1's exchange read
\* its bit 62, and no exchange read a column the kernel had overwritten.
ExchangeBeforeOverwrite ==
    /\ \A i \in DOMAIN colRuns :
          (colRuns[i] >= 1 /\ NumChunks(grid, height) >= 2) =>
             /\ i >= 1 => HasRead(i - 1, i, 1)
             /\ i + 1 < NumChunks(grid, height) => HasRead(i + 1, i, CLUSTER_LEN)
    /\ \A rd \in reads : ~rd.stale

\* inside a tick of a three-column grid the kernel has overwritten the first
\* column and the last exchange has just read the middle one
ExchangeBeforeOverwriteWitness ==
    /\ pc = "tail"
    /\ NumChunks(grid, height) = 3
    /\ colRuns[0] = 1
    /\ HasRead(2, 1, CLUSTER_LEN)

----------------------------------------------------------------------------
(* C11 *)

\* tick_column is about to run
AtKernelStart == pc \in {"loop", "tail", "final"}

\* the column tick_column is about to run on
KernelTarget ==
    CASE pc = "loop" -> LoopTarget(prev, curr)
      [] pc = "tail" -> TailTarget(prev, curr)
      [] OTHER       -> prev

\* C11: when tick_column starts on column i, bit 0 of each of its words is
\* the pre-tick bit 62 of column i-1 in that row (0 for the leftmost column)
\* and bit 63 the pre-tick bit 1 of column i+1 (0 for the rightmost column).
HaloAtKernelStart ==
    AtKernelStart =>
        \A r \in 0..(height - 1) :
            LET i == KernelTarget
                word == grid[i * height + r]
            IN  /\ (0 \in word) <=>
                      (i >= 1 /\ CLUSTER_LEN \in pre[(i - 1) * height + r])
                /\ ((WORD_BITS - 1) \in word) <=>
                      (i + 1 < NumChunks(grid, height) /\ 1 \in pre[(i + 1) * height + r])

\* the kernel is about to run on the middle column of three: a word of it
\* took bit 0 from its left neighbour and lost the bit 63 it held before
HaloAtKernelStartWitness ==
    /\ pc = "final"
    /\ NumChunks(grid, height) = 3
    /\ prev = 1
    /\ \E r \in 0..(height - 1) :
          /\ 0 \in grid[height + r]
          /\ (WORD_BITS - 1) \notin grid[height + r]
          /\ (WORD_BITS - 1) \in pre[height + r]

----------------------------------------------------------------------------
(* tick as a function of the storage: the same steps, composed *)

\* the storage with word r of chunk k replaced by f[r] for every row
MapChunk(g, h, k, f) == WithChunk(g, h, k, [r \in 1..h |-> f[r]])

FirstExchanged(g, h, p, c) ==
    MapChunk(g, h, p, [r \in 1..h |->
        ExchangeFirstWord(Chunk(g, h, p)[r], Chunk(g, h, c)[r])])

MidExchanged(g, h, p, c, n) ==
    MapChunk(g, h, c, [r \in 1..h |->
        ExchangeMidWord(Chunk(g, h, p)[r], Chunk(g, h, c)[r], Chunk(g, h, n)[r])])

LastExchanged(g, w, h, p, c) ==
    MapChunk(g, h, c, [r \in 1..h |->
        ExchangeLastWord(Chunk(g, h, p)[r], Chunk(g, h, c)[r], w)])

SingleMasked(g, w, h, p) ==
    MapChunk(g, h, p, [r \in 1..h |-> SingleWord(Chunk(g, h, p)[r], w)])

ColumnTicked(g, h, k) == WithChunk(g, h, k, TickColumn(Chunk(g, h, k)))

\* the loop over `next`, the last exchange and the two closing tick_column calls
RECURSIVE Sweep(_, _, _, _, _, _)
Sweep(g, w, h, p, c, n) ==
    IF n < NumChunks(g, h)
    THEN Sweep(ColumnTicked(MidExchanged(g, h, p, c, n), h, LoopTarget(p, c)),
               w, h, c, n, n + 1)
    ELSE ColumnTicked(ColumnTicked(LastExchanged(g, w, h, p, c), h, TailTarget(p, c)), h, p)

\* the storage after tick(), for storage on which tick does not fail
TickGrid(g, w, h) ==
    IF NumChunks(g, h) >= 2
    THEN Sweep(FirstExchanged(g, h, 0, 1), w, h, 0, 1, 2)
    ELSE ColumnTicked(SingleMasked(g, w, h, 0), h, 0)

\* the stepwise tick and the composed one give the same storage
TickedIsTickGrid == Ticked => grid = TickGrid(pre, width, height)

----------------------------------------------------------------------------
(* C12 *)

\* storage g with every scratch bit and padding lane cleared
Scrubbed(g) == [i \in DOMAIN g |-> g[i] \ JunkBits(width, i \div height)]

\* C12: the cells after tick() do not depend on the scratch bits and padding
\* lanes before it: a tick of the storage as it was and a tick of the same
\* storage with those bits cleared give the same in-range cells.
JunkDoesNotMatter ==
    (Ticked /\ pre # Scrubbed(pre)) =>
        LiveCells(grid) = LiveCells(TickGrid(Scrubbed(pre), width, height))

\* a tick ran on three columns whose scratch bits and padding lanes were set
\* and left live cells in two of the columns
JunkDoesNotMatterWitness ==
    /\ Ticked
    /\ NumChunks(grid, height) = 3
    /\ \A i \in DOMAIN pre : JunkBits(width, i \div height) \subseteq pre[i]
    /\ \E c \in LiveCells(grid) : c[1] = CLUSTER_LEN - 1
    /\ \E c \in LiveCells(grid) : c[1] = CLUSTER_LEN

----------------------------------------------------------------------------
(* C13 *)

\* the number of valid lanes of the last column, as the claim states it
ValidTailLanes == ((width - 1) % CLUSTER_LEN) + 1

\* C13: when the kernel starts on the last column, every word of that column
\* has bit 63 and every bit above ((width - 1) mod 62) + 1 equal to 0 and its
\* lanes 1..that width as they were before the tick; for a width that is a
\* multiple of 62 all 62 lanes are kept.
TailMaskedAtKernelStart ==
    (KernelStartsOnLast /\ width >= 1) =>
        /\ (width % CLUSTER_LEN = 0) => ValidTailLanes = CLUSTER_LEN
        /\ \A i \in LastColumnWords :
              /\ grid[i] \cap ((ValidTailLanes + 1)..(WORD_BITS - 1)) = {}
              /\ grid[i] \cap (1..ValidTailLanes) = pre[i] \cap (1..ValidTailLanes)

\* the kernel is about to start on the second of two full columns; lane 62 of
\* one of its words is alive and its bit 63, set before the tick, is now clear
TailMaskedAtKernelStartWitness ==
    /\ pc = "tail"
    /\ width = 2 * CLUSTER_LEN
    /\ \E i \in LastColumnWords :
          /\ CLUSTER_LEN \in grid[i]
          /\ (WORD_BITS - 1) \in pre[i]
          /\ (WORD_BITS - 1) \notin grid[i]

----------------------------------------------------------------------------
(* C14 *)

\* C14: in one tick() no column is run through tick_column twice, every run
\* calls tick_cluster once per row of the column, and when tick() returns
\* every one of the columns has been run exactly once.
EachColumnOnce ==
    /\ \A k \in DOMAIN colRuns : colRuns[k] <= 1
    /\ (\E k \in DOMAIN colRuns : colRuns[k] = 1) => Len(calls) = height
    /\ Ticked =>
          /\ DOMAIN colRuns = 0..(Columns - 1)
          /\ \A k \in DOMAIN colRuns : colRuns[k] = 1

\* tick() returned on a grid of two columns and two or more rows
EachColumnOnceWitness ==
    /\ Ticked
    /\ Columns = 2
    /\ height >= 2
    /\ colRuns[0] = 1
    /\ colRuns[1] = 1
    /\ Len(calls) = height

----------------------------------------------------------------------------
(* C15 *)

\* the step runs tick_column on column k
RunsColumn(k) == colRuns'[k] = colRuns[k] + 1

\* C15: in every run of tick_column, the tick_cluster call for row r gets as
\* `above` the word of row r-1 as it was when the run started (0 for the first
\* row) and as `below` the word of row r+1 as it was when the run started (0
\* for the last row); with one row both are 0.
LookbackStep ==
    \A k \in DOMAIN colRuns :
        RunsColumn(k) =>
            \A r \in 1..height :
                /\ calls'[r].above = (IF r = 1 THEN {} ELSE grid[k * height + r - 2])
                /\ calls'[r].below = (IF r = height THEN {} ELSE grid[k * height + r])

LookbackIsOldRow == [][LookbackStep]_vars

\* the last run of a tick on three or more rows: the second call got a
\* non-empty `above` that is no longer what row 0 of the column holds, and a
\* non-empty `below`
LookbackIsOldRowWitness ==
    /\ Ticked
    /\ height >= 3
    /\ Len(calls) = height
    /\ calls[1].above = {}
    /\ calls[2].above # {}
    /\ calls[2].above # grid[prev * height]
    /\ calls[2].below # {}
    /\ calls[height].below = {}

----------------------------------------------------------------------------
(* C16 *)

DataLanes == 1..CLUSTER_LEN

\* C16: when tick_column starts on a column that is not the last one, lanes
\* 1..62 of every word of the column are as they were before the tick: the
\* exchanges have changed bit 0 and bit 63 only.
DataLanesKeptByExchange ==
    (AtKernelStart /\ KernelTarget < NumChunks(grid, height) - 1) =>
        \A r \in 0..(height - 1) :
            grid[KernelTarget * height + r] \cap DataLanes
                = pre[KernelTarget * height + r] \cap DataLanes

\* tick_column is about to run on the middle one of three columns; one of its
\* words has live data lanes and a scratch bit the exchange changed
DataLanesKeptByExchangeWitness ==
    /\ pc = "final"
    /\ NumChunks(grid, height) = 3
    /\ prev = 1
    /\ \E r \in 0..(height - 1) :
          /\ grid[height + r] \cap DataLanes # {}
          /\ grid[height + r] # pre[height + r]

====
